---- MODULE Spec2Model ----
(***************************************************************************)
(* Verification model of the resilient external-API access layer of        *)
(* tcg-price-tracker: circuit breaker (utils/circuit_breaker.py), rate     *)
(* limiter and base client (integrations/base.py), retry decorator         *)
(* (utils/errors.py) and the price-fetch fallback chain                    *)
(* (workers/tasks/price_tasks.py).                                         *)
(*                                                                         *)
(* The program runs on one asyncio event loop: a coroutine runs without    *)
(* interruption until it awaits something that really suspends (a network  *)
(* call, asyncio.sleep, a lock that is held).  Every action below is one   *)
(* such uninterrupted segment.                                             *)
(***************************************************************************)
EXTENDS Integers, Sequences, FiniteSets, TLC

VARIABLES
    now,            \* datetime.utcnow(), in whole seconds
    \* ---- CircuitBreaker (one instance) and the tasks calling it
    cb_cfg,         \* failure_threshold, recovery_timeout, success_threshold
    breaker,        \* _state, _failure_count, _success_count, _last_failure_time
    call_pc,        \* per task: "idle" or "running" (inside the wrapped function)
    admitted_in,    \* per task: the breaker state in which its running call was let through
    started,        \* number of call() invocations begun so far
    invoked,        \* number of times the wrapped function has been invoked
    last,           \* the last operation performed and the task that performed it
    streak,         \* expected failures recorded since the last recorded success or reset
    ho_succ,        \* successes recorded while half-open since the last expected failure
    failed,         \* expected failures recorded by call() so far
    \* ---- RateLimiter (one instance) and the callers of acquire()
    rl_cfg,         \* requests_per_minute, requests_per_hour
    limiter,        \* _minute_requests, _hour_requests
    lock_holder,    \* the caller holding RateLimiter._lock, 0 when it is free
    lock_waiters,   \* the callers queued on RateLimiter._lock, first come first served
    acq_pc,         \* per caller: "idle", "sleeping" or "lock_wait"
    acq_wake,       \* per caller: the time at which its asyncio.sleep ends
    acquires,       \* number of acquire() calls made so far
    admissions,     \* the times at which acquire() admitted a request, in order
    ticks,          \* number of clock advances so far
    rl_last,        \* the last limiter operation and the caller that performed it
    \* ---- retry_on_transient_error around one operation
    rt_cfg,         \* max_attempts, base_delay, max_delay, backoff_factor, jitter
    rt,             \* the wrapper's position, loop counter and what it has done so far
    \* ---- BaseAPIClient: concurrent requests through one client
    req,            \* per request: position, retry loop counter, wake time, what it has done
    \* ---- _update_card_price_async: one price update through the fallback chain
    fetch,          \* position, price_data, data_source and what the update has done so far
    \* ---- one external service called through one client object per price-fetch request
    svc,            \* the service's quota, each request's client and the requests admitted
    \* ---- CircuitBreakerRegistry and the tasks that ask it for breakers
    registry,       \* _breakers, the breakers created, and what each task was handed
    \* ---- search_all_sources: one concurrent search over every source
    search,         \* position, each source's task, and the dict being returned
    \* ---- safe_request: one network call and the classification of its answer
    http,           \* position, the answer, the kinds classified, what was raised
    \* ---- BaseAPIClient.__init__: the client's own settings
    client_cfg      \* max_retries

cbVars == <<cb_cfg, breaker, call_pc, admitted_in, started, invoked, last, streak, ho_succ,
            failed>>
rlVars == <<rl_cfg, limiter, lock_holder, lock_waiters, acq_pc, acq_wake, acquires,
            admissions, ticks, rl_last>>
rtVars == <<rt_cfg, rt>>
clVars == <<req>>
ftVars == <<fetch>>
svVars == <<svc>>
rgVars == <<registry>>
shVars == <<search>>
htVars == <<http>>
ccVars == <<client_cfg>>
vars == <<now, cbVars, rlVars, rtVars, clVars, ftVars, svVars, rgVars, shVars, htVars, ccVars>>

----------------------------------------------------------------------------
(* Bounds of the model *)
NumTasks == 2
MaxCalls == 4
MaxTime == 3
MaxFailureThreshold == 2
MaxSuccessThreshold == 2
MaxRecoveryTimeout == 2
NumCallers == 2
MaxAcquires == 3
MaxTicks == 4
MaxMinuteQuota == 2
MaxHourQuota == 2
MaxAttempts == 3
NumRequests == 2
MaxClientTicks == 2
MaxSvcCalls == 2
MaxSvcTicks == 2
MaxRegistryCalls == 4
MaxRegistryFailures == 2
MaxSearchTime == 40
MaxClassify == 2

Tasks == 1..NumTasks
Callers == 1..NumCallers

\* a record of the last step taken: the operation and who performed it
Op(name, t) == [op |-> name, task |-> t]

----------------------------------------------------------------------------
(* CircuitState *)
CLOSED == "closed"
OPEN == "open"
HALF_OPEN == "half_open"
CircuitState == {CLOSED, OPEN, HALF_OPEN}

\* Optional[datetime] None
NoTime == -1

\* CircuitBreaker.__init__
NewBreaker ==
    [state |-> CLOSED, failure_count |-> 0, success_count |-> 0,
     last_failure_time |-> NoTime]

\* Mutant of should_attempt_reset: the timeout must be strictly exceeded.
should_attempt_reset_strict(b, cfg, t) ==
    IF b.state # OPEN THEN FALSE
    ELSE IF b.last_failure_time = NoTime THEN FALSE
    ELSE t - b.last_failure_time > cfg.recovery_timeout

\* CircuitBreaker._should_attempt_reset
should_attempt_reset(b, cfg, t) ==
    IF b.state # OPEN THEN FALSE
    ELSE IF b.last_failure_time = NoTime THEN FALSE
    ELSE t - b.last_failure_time >= cfg.recovery_timeout

\* Mutant of record_success: closes from any state that is not closed.
record_success_any_state(b, cfg) ==
    LET b1 == [b EXCEPT !.failure_count = 0] IN
    IF b1.state # CLOSED
    THEN LET b2 == [b1 EXCEPT !.success_count = @ + 1] IN
         IF b2.success_count >= cfg.success_threshold
         THEN [b2 EXCEPT !.state = CLOSED, !.success_count = 0]
         ELSE b2
    ELSE b1

\* Mutant of record_success: failure_count is zeroed only when half-open.
record_success_keeps_failures(b, cfg) ==
    IF b.state = HALF_OPEN
    THEN LET b2 == [b EXCEPT !.failure_count = 0, !.success_count = @ + 1] IN
         IF b2.success_count >= cfg.success_threshold
         THEN [b2 EXCEPT !.state = CLOSED, !.success_count = 0]
         ELSE b2
    ELSE b

\* Mutant of record_success: needs one success more than success_threshold.
record_success_late(b, cfg) ==
    LET b1 == [b EXCEPT !.failure_count = 0] IN
    IF b1.state = HALF_OPEN
    THEN LET b2 == [b1 EXCEPT !.success_count = @ + 1] IN
         IF b2.success_count > cfg.success_threshold
         THEN [b2 EXCEPT !.state = CLOSED, !.success_count = 0]
         ELSE b2
    ELSE b1

\* CircuitBreaker._record_success
record_success(b, cfg) ==
    LET b1 == [b EXCEPT !.failure_count = 0] IN
    IF b1.state = HALF_OPEN
    THEN LET b2 == [b1 EXCEPT !.success_count = @ + 1] IN
         IF b2.success_count >= cfg.success_threshold
         THEN [b2 EXCEPT !.state = CLOSED, !.success_count = 0]
         ELSE b2
    ELSE b1

\* Mutant of record_failure: opens only when the count exceeds the threshold.
record_failure_off_by_one(b, cfg, t) ==
    LET b1 == [b EXCEPT !.failure_count = @ + 1,
                        !.last_failure_time = t,
                        !.success_count = 0] IN
    IF b1.state = HALF_OPEN
    THEN [b1 EXCEPT !.state = OPEN]
    ELSE IF b1.state = CLOSED /\ b1.failure_count > cfg.failure_threshold
    THEN [b1 EXCEPT !.state = OPEN]
    ELSE b1

\* Mutant of record_failure: a half-open failure is only counted against the threshold.
record_failure_no_half_open(b, cfg, t) ==
    LET b1 == [b EXCEPT !.failure_count = @ + 1,
                        !.last_failure_time = t,
                        !.success_count = 0] IN
    IF b1.state # OPEN /\ b1.failure_count >= cfg.failure_threshold
    THEN [b1 EXCEPT !.state = OPEN]
    ELSE b1

\* CircuitBreaker._record_failure
record_failure(b, cfg, t) ==
    LET b1 == [b EXCEPT !.failure_count = @ + 1,
                        !.last_failure_time = t,
                        !.success_count = 0] IN
    IF b1.state = HALF_OPEN
    THEN [b1 EXCEPT !.state = OPEN]
    ELSE IF b1.state = CLOSED /\ b1.failure_count >= cfg.failure_threshold
    THEN [b1 EXCEPT !.state = OPEN]
    ELSE b1

\* CircuitBreaker.call, up to the block check: the lazy open -> half-open move
call_gate(b, cfg, t) ==
    IF should_attempt_reset(b, cfg, t)
    THEN IF b.state = OPEN
         THEN [b EXCEPT !.state = HALF_OPEN, !.success_count = 0]
         ELSE b
    ELSE b

\* Mutant of unexpected_exception: the exception is counted as a failure.
unexpected_exception_counted(b, cfg, t) == record_failure(b, cfg, t)

\* call(), "except Exception": an exception that is no expected_exception is
\* logged and raised again, nothing is recorded
unexpected_exception(b, cfg, t) == b

\* Mutant of reset: success_count is left as it is.
reset_keeps_success_count(b) ==
    [b EXCEPT !.state = CLOSED, !.failure_count = 0, !.last_failure_time = NoTime]

\* CircuitBreaker.reset
reset(b) ==
    [b EXCEPT !.state = CLOSED, !.failure_count = 0, !.success_count = 0,
              !.last_failure_time = NoTime]


----------------------------------------------------------------------------
(* Error taxonomy and retry_on_transient_error *)

\* the exception classes of utils/errors.py, CircuitBreakerError, and any other Exception
ExcKinds ==
    {"APIError", "TransientError", "PermanentError", "RateLimitError",
     "AuthenticationError", "ValidationError", "NetworkError", "TimeoutError",
     "CircuitBreakerError", "Exception"}

\* the classes a class derives from, itself included
Bases(kind) ==
    CASE kind = "APIError"            -> {"APIError", "Exception"}
      [] kind = "TransientError"      -> {"TransientError", "APIError", "Exception"}
      [] kind = "PermanentError"      -> {"PermanentError", "APIError", "Exception"}
      [] kind = "RateLimitError"      -> {"RateLimitError", "TransientError", "APIError", "Exception"}
      [] kind = "AuthenticationError" -> {"AuthenticationError", "PermanentError", "APIError", "Exception"}
      [] kind = "ValidationError"     -> {"ValidationError", "PermanentError", "APIError", "Exception"}
      [] kind = "NetworkError"        -> {"NetworkError", "TransientError", "APIError", "Exception"}
      [] kind = "TimeoutError"        -> {"TimeoutError", "TransientError", "APIError", "Exception"}
      [] kind = "CircuitBreakerError" -> {"CircuitBreakerError", "Exception"}
      [] OTHER                        -> {"Exception"}

\* isinstance(exc, cls)
IsInstance(kind, cls) == cls \in Bases(kind)

\* RateLimitError.retry_after = None
NoRetryAfter == -1

\* an exception object: its class and, for RateLimitError, retry_after
Exc(kind, retry_after) == [kind |-> kind, retry_after |-> retry_after]
NoExc == Exc("none", NoRetryAfter)

\* exceptions = [TransientError, NetworkError, TimeoutError, RateLimitError]
RetryExceptions == {"TransientError", "NetworkError", "TimeoutError", "RateLimitError"}

\* Mutant of should_retry: every APIError is retried.
should_retry_any_api_error(kind) == IsInstance(kind, "APIError")

\* Mutant of should_retry: every exception is retried.
should_retry_any_exception(kind) == IsInstance(kind, "Exception")

\* should_retry = any(isinstance(exc, exc_type) for exc_type in exceptions)
should_retry(kind) == \E cls \in RetryExceptions : IsInstance(kind, cls)

\* Mutant of gives_up: the loop allows one attempt more.
gives_up_one_late(cfg, attempt, exc) ==
    ~should_retry(exc.kind) \/ attempt = cfg.max_attempts

\* "if not should_retry or attempt == max_attempts - 1: raise"
gives_up(cfg, attempt, exc) ==
    ~should_retry(exc.kind) \/ attempt = cfg.max_attempts - 1

RECURSIVE Power(_, _)
Power(b, n) == IF n = 0 THEN 1 ELSE b * Power(b, n - 1)

Min(a, b) == IF a <= b THEN a ELSE b
Max(a, b) == IF a >= b THEN a ELSE b

\* min(base_delay * (backoff_factor ** attempt), max_delay)
backoff(cfg, attempt) ==
    Min(cfg.base_delay * Power(cfg.backoff_factor, attempt), cfg.max_delay)

\* the delays the wrapper may wait before the next attempt, in whole seconds:
\* the provider's retry_after when it is truthy, else the backoff with its
\* jitter of +-25 % (random.uniform, here every whole second in the range),
\* floored at 0
retry_delays(cfg, attempt, exc) ==
    IF IsInstance(exc.kind, "RateLimitError")
       /\ exc.retry_after # NoRetryAfter /\ exc.retry_after # 0
    THEN {exc.retry_after}
    ELSE LET delay == backoff(cfg, attempt)
             jitter_range == (delay * 25) \div 100
         IN  IF cfg.jitter
             THEN {Max(0, delay + j) : j \in (0 - jitter_range)..jitter_range}
             ELSE {Max(0, delay)}

\* the wrapper before its first attempt
NewRetry ==
    [pc |-> "ready", attempt |-> 0, calls |-> 0, outcomes |-> <<>>,
     delays |-> <<>>, raised |-> NoExc, last_exception |-> NoExc]

\* the retry wrapper left alone, in the specifications that are not about it
RtUnused ==
    /\ rt_cfg = [max_attempts |-> 3, base_delay |-> 1, max_delay |-> 60,
                 backoff_factor |-> 2, jitter |-> TRUE]
    /\ rt = NewRetry

----------------------------------------------------------------------------
(* safe_request and the error classifier *)

\* Mutant of classify_http_error: 403 is not among the authentication statuses.
classify_http_error_403_permanent(status_code) ==
    IF 400 <= status_code /\ status_code < 500
    THEN IF status_code = 429 THEN "RateLimitError"
         ELSE IF status_code \in {401} THEN "AuthenticationError"
         ELSE IF status_code = 422 THEN "ValidationError"
         ELSE "PermanentError"
    ELSE IF 500 <= status_code /\ status_code < 600 THEN "TransientError"
    ELSE "TransientError"

\* classify_http_error
classify_http_error(status_code) ==
    IF 400 <= status_code /\ status_code < 500
    THEN IF status_code = 429 THEN "RateLimitError"
         ELSE IF status_code \in {401, 403} THEN "AuthenticationError"
         ELSE IF status_code = 422 THEN "ValidationError"
         ELSE "PermanentError"
    ELSE IF 500 <= status_code /\ status_code < 600 THEN "TransientError"
    ELSE "TransientError"

\* classify_exception, for the exceptions of httpx
classify_exception(resp) ==
    IF resp.type = "TimeoutException" THEN "TimeoutError"
    ELSE IF resp.type \in {"NetworkError", "ConnectError"} THEN "NetworkError"
    ELSE IF resp.type = "HTTPStatusError" THEN classify_http_error(resp.status)
    ELSE "TransientError"

\* handle_http_error: NoExc for a 2xx response, else the exception it raises
handle_http_error(resp) ==
    IF 200 <= resp.status /\ resp.status < 300 THEN NoExc
    ELSE IF classify_http_error(resp.status) = "RateLimitError"
    THEN Exc("RateLimitError", resp.retry_after)
    ELSE Exc(classify_http_error(resp.status), NoRetryAfter)

\* the httpx exceptions that derive from httpx.HTTPError
HttpxErrors == {"TimeoutException", "NetworkError", "ConnectError", "HTTPStatusError", "HTTPError"}

\* safe_request: NoExc when the response is returned, else the exception that
\* leaves it.  The APIError raised by handle_http_error inside the try block is
\* no httpx.HTTPError, so "except Exception" catches it and raises TransientError.
safe_request(resp) ==
    IF resp.type = "response"
    THEN IF handle_http_error(resp) = NoExc THEN NoExc
         ELSE Exc("TransientError", NoRetryAfter)
    ELSE IF resp.type \in HttpxErrors
    THEN Exc(classify_exception(resp), NoRetryAfter)
    ELSE Exc("TransientError", NoRetryAfter)

\* what the provider and the transport may answer to one network call
HttpResponse(status, retry_after) ==
    [type |-> "response", status |-> status, retry_after |-> retry_after]
TransportError(type) == [type |-> type, status |-> 0, retry_after |-> NoRetryAfter]
Responses ==
    {HttpResponse(st, NoRetryAfter) : st \in {200, 401, 404, 422, 429, 503}}
    \cup {HttpResponse(429, 7)}
    \cup {TransportError(ty) : ty \in {"TimeoutException", "ConnectError", "Exception"}}

\* @retry_on_transient_error(max_attempts=3, base_delay=1.0, max_delay=30.0)
ClientRetryCfg ==
    [max_attempts |-> 3, base_delay |-> 1, max_delay |-> 30,
     backoff_factor |-> 2, jitter |-> TRUE]

\* expected_exception=TransientError
ExpectedException == "TransientError"

\* nothing has answered the request yet
NoAnswer == TransportError("none")

\* a request before _make_request is called
NewRequest ==
    [pc |-> "ready", attempt |-> 0, wake |-> 0, sent |-> 0, acquired |-> 0,
     failures |-> 0, successes |-> 0, raised |-> NoExc, answer |-> NoAnswer]

\* max_retries: int = 3
DefaultMaxRetries == 3

\* the client's settings left alone, in the specifications that are not about it
CcUnused == client_cfg = [max_retries |-> DefaultMaxRetries]

\* the client left alone, in the specifications that are not about it
ClUnused == req = [r \in 1..NumRequests |-> NewRequest]

----------------------------------------------------------------------------
(* Price-fetch fallback chain: workers/tasks/price_tasks.py                *)
(*                                                                         *)
(* _update_card_price_async is modelled against its collaborators' interfaces: *)
(* the ORM objects (Card, DataSourceEnum, the session) answer the attribute *)
(* reads the function makes, and each client's get_card_price either       *)
(* returns None, returns a price dict, or raises one of the exceptions the *)
(* function's except clauses tell apart.                                   *)

\* DataSourceEnum.PRICECHARTING, DataSourceEnum.JUSTTCG, and data_source = None
PRICECHARTING == "PRICECHARTING"
JUSTTCG == "JUSTTCG"
NoSource == "None"

\* a price that is None, or a key the dict does not have (dict.get gives None)
NoPrice == -1

\* the largest price the validation loops accept
MaxPrice == 100000

\* the prices a source may report: nothing, zero, an ordinary price, one out of range
Prices == {NoPrice, 0, 50, 2 * MaxPrice}

\* price_data = None
NoData == <<>>

\* the dict PriceChartingClient._transform_price_data builds; the three keys the
\* transformation of the update never reads take fewer values
PcPayloads ==
    [market_price : Prices, low_price : {NoPrice, 50}, high_price : {NoPrice, 50},
     mid_price : {NoPrice, 50},
     loose_price : Prices, complete_price : Prices, new_price : Prices]

\* a dict with the four price keys only
PriceDict(market, low, high, mid) ==
    [market_price |-> market, low_price |-> low, high_price |-> high, mid_price |-> mid,
     loose_price |-> NoPrice, complete_price |-> NoPrice, new_price |-> NoPrice]

\* the dict JustTCGClient._transform_price_data builds, as far as it is read
JtPayloads == {PriceDict(m, l, h, d) : m \in Prices, l \in Prices, h \in Prices, d \in Prices}

\* Python truthiness of a price: None and 0 are false
Truthy(value) == value # NoPrice /\ value # 0

\* if value and (value < 0 or value > 100000)
invalid_price(value) == Truthy(value) /\ (value < 0 \/ value > MaxPrice)

\* transformed_data, built from the PriceCharting dict
transformed_data(pd) ==
    PriceDict(pd.complete_price, pd.loose_price, pd.new_price, pd.market_price)

\* one of the four validated keys holds an invalid price
fails_validation(pd) ==
    \E key \in {"market_price", "low_price", "high_price", "mid_price"} : invalid_price(pd[key])

\* the exceptions the except clauses of the two try blocks tell apart
FetchExceptions ==
    {Exc("RateLimitException", ra) : ra \in {NoRetryAfter, 0, 30}}
    \cup {Exc(kind, NoRetryAfter) :
            kind \in {"AuthenticationException", "PriceValidationException",
                      "NetworkException", "Exception"}}

\* the except clauses of the PriceCharting try block: TRUE when the exception
\* leaves the function
primary_reraises(exc) ==
    \/ exc.kind = "RateLimitException" /\ exc.retry_after # NoRetryAfter /\ exc.retry_after # 0
    \/ exc.kind = "AuthenticationException"

\* the except clauses of the JustTCG try block
fallback_reraises(exc) == exc.kind = "RateLimitException"

\* the PriceHistory row built from price_data and data_source
PriceHistory(pd, source) ==
    [source |-> source, market_price |-> pd.market_price, price_low |-> pd.low_price,
     price_high |-> pd.high_price, price_avg |-> pd.mid_price]

\* a price update that has not started
NewFetch ==
    [pc |-> "start", price_data |-> NoData, data_source |-> NoSource, tried |-> <<>>,
     outcomes |-> <<>>, returned |-> <<>>, raised |-> "none", result |-> "none",
     added |-> <<>>, committed |-> FALSE]

\* the fallback chain left alone, in the specifications that are not about it
FtUnused == fetch = NewFetch

\* the status codes a provider may answer with
HttpStatuses == {100, 200, 204, 301, 400, 401, 403, 404, 422, 429, 499, 500, 503, 599, 600}

\* what one network call of safe_request may be answered with: a response with
\* its status and its Retry-After header as int() parses it (NoRetryAfter when
\* the header is absent or no integer), or an exception of the transport
HttpAnswers ==
    {HttpResponse(st, ra) : st \in HttpStatuses, ra \in {NoRetryAfter, 0, 7}}
    \cup {TransportError(ty) :
            ty \in {"TimeoutException", "ConnectError", "HTTPStatusError", "Exception"}}

\* safe_request before client.request has answered
NewHttp ==
    [pc |-> "sending", resp |-> TransportError("none"), kinds |-> <<>>,
     inner |-> NoExc, out |-> NoExc]

\* safe_request left alone, in the specifications that are not about it
HtUnused == http = NewHttp

----------------------------------------------------------------------------
(* RateLimiter *)

\* timedelta(minutes=1) and timedelta(hours=1), in seconds
MinuteWindow == 60
HourWindow == 3600

\* requests_per_hour = None
NoQuota == 0

\* RateLimiter.__init__
NewLimiter == [minute_requests |-> <<>>, hour_requests |-> <<>>]

\* [r for r in requests if r > cutoff]
Newer(requests, cutoff) == SelectSeq(requests, LAMBDA x : x > cutoff)

\* Mutant of acquire_body: the quota checks use > instead of >=.
acquire_body_off_by_one(lim, cfg, t) ==
    LET m == Newer(lim.minute_requests, t - MinuteWindow)
        h == IF cfg.requests_per_hour # NoQuota
             THEN Newer(lim.hour_requests, t - HourWindow)
             ELSE lim.hour_requests
    IN  IF Len(m) > cfg.requests_per_minute /\ MinuteWindow - (t - m[1]) > 0
        THEN [kind |-> "sleep", sleep_time |-> MinuteWindow - (t - m[1]),
              limiter |-> [minute_requests |-> m, hour_requests |-> h]]
        ELSE IF /\ cfg.requests_per_hour # NoQuota
                /\ Len(h) > cfg.requests_per_hour
                /\ HourWindow - (t - h[1]) > 0
        THEN [kind |-> "sleep", sleep_time |-> HourWindow - (t - h[1]),
              limiter |-> [minute_requests |-> m, hour_requests |-> h]]
        ELSE [kind |-> "admit", sleep_time |-> 0,
              limiter |-> [minute_requests |-> Append(m, t),
                           hour_requests |-> IF cfg.requests_per_hour # NoQuota
                                             THEN Append(h, t) ELSE h]]

\* RateLimiter.acquire, the body run under the lock up to its first suspension:
\* either the request is recorded or the caller goes to sleep for sleep_time
acquire_body(lim, cfg, t) ==
    LET m == Newer(lim.minute_requests, t - MinuteWindow)
        h == IF cfg.requests_per_hour # NoQuota
             THEN Newer(lim.hour_requests, t - HourWindow)
             ELSE lim.hour_requests
    IN  IF Len(m) >= cfg.requests_per_minute /\ MinuteWindow - (t - m[1]) > 0
        THEN [kind |-> "sleep", sleep_time |-> MinuteWindow - (t - m[1]),
              limiter |-> [minute_requests |-> m, hour_requests |-> h]]
        ELSE IF /\ cfg.requests_per_hour # NoQuota
                /\ Len(h) >= cfg.requests_per_hour
                /\ HourWindow - (t - h[1]) > 0
        THEN [kind |-> "sleep", sleep_time |-> HourWindow - (t - h[1]),
              limiter |-> [minute_requests |-> m, hour_requests |-> h]]
        ELSE [kind |-> "admit", sleep_time |-> 0,
              limiter |-> [minute_requests |-> Append(m, t),
                           hour_requests |-> IF cfg.requests_per_hour # NoQuota
                                             THEN Append(h, t) ELSE h]]

\* asyncio.Lock.acquire takes the lock at once only if it is free and nobody queues
LockFree == lock_holder = 0 /\ lock_waiters = <<>>

\* the limiter and its callers after construction
RlStart ==
    /\ limiter = NewLimiter
    /\ lock_holder = 0
    /\ lock_waiters = <<>>
    /\ acq_pc = [c \in Callers |-> "idle"]
    /\ acq_wake = [c \in Callers |-> 0]
    /\ acquires = 0
    /\ admissions = <<>>
    /\ ticks = 0
    /\ rl_last = Op("init", 0)

\* the limiter left alone, in the specifications that are not about it
RlUnused ==
    /\ rl_cfg = [requests_per_minute |-> 60, requests_per_hour |-> NoQuota]
    /\ RlStart

----------------------------------------------------------------------------
(* One external service and the client objects that call it *)

\* a price-fetch request that has not constructed its client yet
NoClient == [pc |-> "none", rate_limiter |-> NewLimiter, wake |-> 0, calls |-> 0]

\* BaseAPIClient.__init__: self._rate_limiter = RateLimiter(requests_per_minute, ...)
NewClient == [pc |-> "idle", rate_limiter |-> NewLimiter, wake |-> 0, calls |-> 0]

\* the service before any request
NewService(cfg) ==
    [cfg |-> cfg, client |-> [r \in 1..NumRequests |-> NoClient], admitted |-> <<>>,
     ticks |-> 0]

\* the service left alone, in the specifications that are not about it
SvUnused ==
    svc = NewService([requests_per_minute |-> 60, requests_per_hour |-> NoQuota])

----------------------------------------------------------------------------
(* CircuitBreakerRegistry *)

\* the names the clients ask for: f"{service_name}_api"
BreakerNames == {"pricecharting_api", "justtcg_api"}

\* "name not in self._breakers"
NoBreaker == 0

\* the identities of the CircuitBreaker objects that can come to exist
BreakerIds == 1..MaxRegistryCalls

\* Mutant of get_or_create: a breaker is created on every call.
get_or_create_always_creates(breakers, name, fresh) ==
    [breakers |-> [breakers EXCEPT ![name] = fresh], returned |-> fresh, created |-> TRUE]

\* CircuitBreakerRegistry.get_or_create, the body run under self._lock; fresh
\* is the identity of the CircuitBreaker it constructs if it constructs one
get_or_create(breakers, name, fresh) ==
    IF breakers[name] = NoBreaker
    THEN [breakers |-> [breakers EXCEPT ![name] = fresh], returned |-> fresh, created |-> TRUE]
    ELSE [breakers |-> breakers, returned |-> breakers[name], created |-> FALSE]

\* CircuitBreakerRegistry.__init__, and tasks that hold no breaker yet
NewRegistry ==
    [breakers |-> [n \in BreakerNames |-> NoBreaker],
     created |-> [n \in BreakerNames |-> 0],
     objects |-> 0,
     held |-> [t \in Tasks |-> [n \in BreakerNames |-> NoBreaker]],
     failure_count |-> [i \in BreakerIds |-> 0],
     calls |-> 0,
     last |-> Op("init", 0)]

\* the registry left alone, in the specifications that are not about it
RgUnused == registry = NewRegistry

----------------------------------------------------------------------------
(* search_all_sources: api/v1/search.py *)

\* the keys of the tasks dict, in its order
SearchSources == <<"tcgplayer", "ebay", "pricecharting", "justtcg">>
SourceNames == {SearchSources[i] : i \in 1..Len(SearchSources)}

\* asyncio.wait_for(..., timeout=30.0), in seconds
SearchTimeout == 30

\* what a source's coroutine has come to: still running, returned a list
\* (empty or not), raised HTTPException, or cancelled by the timeout
TaskStates == {"running", "hits", "empty", "HTTPException", "cancelled"}

\* the error strings appended to results["errors"]
TimedOutError == "Search timed out"
UnavailableError(source) == <<source, "search is currently unavailable">>

\* results = {"tcgplayer": [], "ebay": [], "pricecharting": [], "justtcg": [], "errors": []}
NewResults == [lists |-> [s \in SourceNames |-> "empty"], errors |-> <<>>]

\* Mutant of gather: return_exceptions=False, the first exception is raised.
gather_raises(task) ==
    IF \E s \in SourceNames : task[s] = "HTTPException"
    THEN [raised |-> TRUE, gathered |-> task]
    ELSE [raised |-> FALSE, gathered |-> task]

\* asyncio.gather(*tasks.values(), return_exceptions=True) once every task is
\* done: exceptions are returned as results, nothing is raised
gather(task) == [raised |-> FALSE, gathered |-> task]

\* the loop over zip(tasks.keys(), gathered), source by source in the dict's order
RECURSIVE collect(_, _, _)
collect(results, gathered, i) ==
    IF i > Len(SearchSources) THEN results
    ELSE LET source == SearchSources[i] IN
         collect(IF gathered[source] = "HTTPException"
                 THEN [results EXCEPT !.errors = Append(@, UnavailableError(source))]
                 ELSE [results EXCEPT !.lists[source] = gathered[source]],
                 gathered, i + 1)

\* "except asyncio.TimeoutError": one error is appended and results is returned
\* as it was initialised
on_timeout(results, task) == [results EXCEPT !.errors = Append(@, TimedOutError)]

\* a search that has just started its four tasks
NewSearch ==
    [pc |-> "gathering", task |-> [s \in SourceNames |-> "running"],
     results |-> NewResults, returned_at |-> 0]

\* the search left alone, in the specifications that are not about it
ShUnused == search = NewSearch

----------------------------------------------------------------------------
(* Specification Spec: one CircuitBreaker, NumTasks concurrent callers, a clock *)

CbConfigs ==
    [failure_threshold : 1..MaxFailureThreshold,
     recovery_timeout  : 1..MaxRecoveryTimeout,
     success_threshold : 1..MaxSuccessThreshold]

\* the breaker and its callers after construction
CbStart ==
    /\ breaker = NewBreaker
    /\ call_pc = [t \in Tasks |-> "idle"]
    /\ admitted_in = [t \in Tasks |-> CLOSED]
    /\ started = 0
    /\ invoked = 0
    /\ last = Op("init", 0)
    /\ streak = 0
    /\ ho_succ = 0
    /\ failed = 0

Init ==
    /\ now = 0
    /\ cb_cfg \in CbConfigs
    /\ CbStart
    /\ RlUnused
    /\ RtUnused
    /\ ClUnused
    /\ FtUnused
    /\ CcUnused
    /\ HtUnused
    /\ ShUnused
    /\ RgUnused
    /\ SvUnused

\* call(): the circuit is open after the gate, CircuitBreakerError is raised
CallBlocked(t) ==
    /\ call_pc[t] = "idle"
    /\ started < MaxCalls
    /\ call_gate(breaker, cb_cfg, now).state = OPEN
    /\ breaker' = call_gate(breaker, cb_cfg, now)
    /\ started' = started + 1
    /\ last' = Op("blocked", t)
    /\ UNCHANGED <<ccVars, htVars, shVars, rgVars, svVars, ftVars, rlVars, rtVars, clVars, now, cb_cfg, failed, call_pc, admitted_in, invoked, streak, ho_succ>>

\* call(): the call is let through and the wrapped function starts
CallAttempt(t) ==
    /\ call_pc[t] = "idle"
    /\ started < MaxCalls
    /\ call_gate(breaker, cb_cfg, now).state # OPEN
    /\ breaker' = call_gate(breaker, cb_cfg, now)
    /\ call_pc' = [call_pc EXCEPT ![t] = "running"]
    /\ admitted_in' = [admitted_in EXCEPT ![t] = breaker'.state]
    /\ started' = started + 1
    /\ invoked' = invoked + 1
    /\ last' = Op("attempt", t)
    /\ ho_succ' = IF breaker.state = OPEN THEN 0 ELSE ho_succ
    /\ UNCHANGED <<ccVars, htVars, shVars, rgVars, svVars, ftVars, rlVars, rtVars, clVars, now, cb_cfg, failed, streak>>

\* call(): the wrapped function returns, _record_success runs
CallSuccess(t) ==
    /\ call_pc[t] = "running"
    /\ breaker' = record_success(breaker, cb_cfg)
    /\ call_pc' = [call_pc EXCEPT ![t] = "idle"]
    /\ last' = Op("success", t)
    /\ streak' = 0
    /\ ho_succ' = IF breaker.state = HALF_OPEN THEN ho_succ + 1 ELSE ho_succ
    /\ UNCHANGED <<ccVars, htVars, shVars, rgVars, svVars, ftVars, rlVars, rtVars, clVars, now, cb_cfg, failed, admitted_in, started, invoked>>

\* call(): the wrapped function raises expected_exception, _record_failure runs
CallExpectedFailure(t) ==
    /\ call_pc[t] = "running"
    /\ breaker' = record_failure(breaker, cb_cfg, now)
    /\ call_pc' = [call_pc EXCEPT ![t] = "idle"]
    /\ last' = Op("failure", t)
    /\ streak' = streak + 1
    /\ ho_succ' = 0
    /\ failed' = failed + 1
    /\ UNCHANGED <<ccVars, htVars, shVars, rgVars, svVars, ftVars, rlVars, rtVars, clVars, now, cb_cfg, admitted_in, started, invoked>>

\* call(): the wrapped function raises some other exception, nothing is recorded
CallUnexpectedException(t) ==
    /\ call_pc[t] = "running"
    /\ call_pc' = [call_pc EXCEPT ![t] = "idle"]
    /\ breaker' = unexpected_exception(breaker, cb_cfg, now)
    /\ last' = Op("unexpected", t)
    /\ UNCHANGED <<ccVars, htVars, shVars, rgVars, svVars, ftVars, rlVars, rtVars, clVars, now, cb_cfg, failed, admitted_in, started, invoked, streak, ho_succ>>

\* reset(): the manual reset
Reset ==
    /\ breaker' = reset(breaker)
    /\ last' = Op("reset", 0)
    /\ streak' = 0
    /\ ho_succ' = 0
    /\ UNCHANGED <<ccVars, htVars, shVars, rgVars, svVars, ftVars, rlVars, rtVars, clVars, now, cb_cfg, failed, call_pc, admitted_in, started, invoked>>

\* one second passes
Tick ==
    /\ now < MaxTime
    /\ now' = now + 1
    /\ last' = Op("tick", 0)
    /\ UNCHANGED <<ccVars, htVars, shVars, rgVars, svVars, ftVars, rlVars, rtVars, clVars, cb_cfg, failed, breaker, call_pc, admitted_in, started, invoked, streak, ho_succ>>

Next ==
    \/ \E t \in Tasks : CallBlocked(t)
    \/ \E t \in Tasks : CallAttempt(t)
    \/ \E t \in Tasks : CallSuccess(t)
    \/ \E t \in Tasks : CallExpectedFailure(t)
    \/ \E t \in Tasks : CallUnexpectedException(t)
    \/ Reset
    \/ Tick

Spec == Init /\ [][Next]_vars

----------------------------------------------------------------------------
(* Specification SpecLimiter: one RateLimiter, NumCallers concurrent callers  *)
(* of acquire(), a clock                                                      *)

RlConfigs ==
    [requests_per_minute : 1..MaxMinuteQuota,
     requests_per_hour   : {NoQuota} \cup 1..MaxHourQuota]

\* the amounts by which the clock advances between two steps
TimeSteps == {1, MinuteWindow - 1, HourWindow - MinuteWindow}

\* the breaker left alone, in the specifications that are not about it
CbUnused ==
    /\ cb_cfg = [failure_threshold |-> 5, recovery_timeout |-> 60, success_threshold |-> 1]
    /\ CbStart

InitLimiter ==
    /\ now = 0
    /\ rl_cfg \in RlConfigs
    /\ RlStart
    /\ CbUnused
    /\ RtUnused
    /\ ClUnused
    /\ FtUnused
    /\ CcUnused
    /\ HtUnused
    /\ ShUnused
    /\ RgUnused
    /\ SvUnused

\* caller c may run the body of acquire(): it calls acquire() while the lock
\* is free, or it is the first waiter of a lock that was released
CanEnter(c) ==
    IF acq_pc[c] = "idle"
    THEN acquires < MaxAcquires /\ LockFree
    ELSE acq_pc[c] = "lock_wait" /\ lock_holder = 0
         /\ lock_waiters # <<>> /\ Head(lock_waiters) = c

\* the waiters once c has taken the lock
WaitersAfter(c) ==
    IF lock_waiters # <<>> /\ Head(lock_waiters) = c THEN Tail(lock_waiters) ELSE lock_waiters

\* acquire(): all quota checks pass, the request is recorded, the lock released
AcquireAdmitted(c) ==
    /\ CanEnter(c)
    /\ acquire_body(limiter, rl_cfg, now).kind = "admit"
    /\ limiter' = acquire_body(limiter, rl_cfg, now).limiter
    /\ lock_holder' = 0
    /\ lock_waiters' = WaitersAfter(c)
    /\ acq_pc' = [acq_pc EXCEPT ![c] = "idle"]
    /\ acquires' = IF acq_pc[c] = "idle" THEN acquires + 1 ELSE acquires
    /\ admissions' = Append(admissions, now)
    /\ rl_last' = Op("admit", c)
    /\ UNCHANGED <<ccVars, htVars, shVars, rgVars, svVars, ftVars, now, cbVars, rtVars, clVars, rl_cfg, acq_wake, ticks>>

\* acquire(): a quota is full, the caller sleeps inside "async with self._lock"
AcquireSleeps(c) ==
    /\ CanEnter(c)
    /\ acquire_body(limiter, rl_cfg, now).kind = "sleep"
    /\ limiter' = acquire_body(limiter, rl_cfg, now).limiter
    /\ lock_holder' = c
    /\ lock_waiters' = WaitersAfter(c)
    /\ acq_pc' = [acq_pc EXCEPT ![c] = "sleeping"]
    /\ acq_wake' = [acq_wake EXCEPT ![c] = now + acquire_body(limiter, rl_cfg, now).sleep_time]
    /\ acquires' = IF acq_pc[c] = "idle" THEN acquires + 1 ELSE acquires
    /\ rl_last' = Op("sleep", c)
    /\ UNCHANGED <<ccVars, htVars, shVars, rgVars, svVars, ftVars, now, cbVars, rtVars, clVars, rl_cfg, admissions, ticks>>

\* acquire(): the lock is held or has waiters, the caller queues on it
AcquireQueues(c) ==
    /\ acq_pc[c] = "idle"
    /\ acquires < MaxAcquires
    /\ ~LockFree
    /\ lock_waiters' = Append(lock_waiters, c)
    /\ acq_pc' = [acq_pc EXCEPT ![c] = "lock_wait"]
    /\ acquires' = acquires + 1
    /\ rl_last' = Op("queue", c)
    /\ UNCHANGED <<ccVars, htVars, shVars, rgVars, svVars, ftVars, now, cbVars, rtVars, clVars, rl_cfg, limiter, lock_holder, acq_wake, admissions, ticks>>

\* acquire(): the sleep is over and "return await self.acquire()" runs, still
\* inside the with block of the outer call, which holds the lock: the inner
\* call queues on the lock like any other caller
AcquireWakes(c) ==
    /\ acq_pc[c] = "sleeping"
    /\ now >= acq_wake[c]
    /\ lock_waiters' = Append(lock_waiters, c)
    /\ acq_pc' = [acq_pc EXCEPT ![c] = "lock_wait"]
    /\ rl_last' = Op("wake", c)
    /\ UNCHANGED <<ccVars, htVars, shVars, rgVars, svVars, ftVars, now, cbVars, rtVars, clVars, rl_cfg, limiter, lock_holder, acq_wake, acquires,
                   admissions, ticks>>

\* time passes
LimiterTick(d) ==
    /\ ticks < MaxTicks
    /\ now' = now + d
    /\ ticks' = ticks + 1
    /\ rl_last' = Op("tick", 0)
    /\ UNCHANGED <<ccVars, htVars, shVars, rgVars, svVars, ftVars, cbVars, rtVars, clVars, rl_cfg, limiter, lock_holder, lock_waiters, acq_pc, acq_wake,
                   acquires, admissions>>

NextLimiter ==
    \/ \E c \in Callers : AcquireAdmitted(c)
    \/ \E c \in Callers : AcquireSleeps(c)
    \/ \E c \in Callers : AcquireQueues(c)
    \/ \E c \in Callers : AcquireWakes(c)
    \/ \E d \in TimeSteps : LimiterTick(d)

SpecLimiter == InitLimiter /\ [][NextLimiter]_vars

----------------------------------------------------------------------------
(* Specification SpecRetry: retry_on_transient_error around an operation    *)
(* that returns or raises as it likes                                       *)

RtConfigs ==
    [max_attempts   : 1..MaxAttempts,
     base_delay     : {0, 1, 4},
     max_delay      : {6, 60},
     backoff_factor : {2},
     jitter         : BOOLEAN]

\* what one invocation of the operation may raise
Raisable ==
    {Exc(k, NoRetryAfter) : k \in ExcKinds} \cup
    {Exc("RateLimitError", ra) : ra \in {0, 7}}

InitRetry ==
    /\ now = 0
    /\ rt_cfg \in RtConfigs
    /\ rt = NewRetry
    /\ CbUnused
    /\ RlUnused
    /\ ClUnused
    /\ FtUnused
    /\ CcUnused
    /\ HtUnused
    /\ ShUnused
    /\ RgUnused
    /\ SvUnused

\* wrapper: the operation is invoked and returns
RetryCallReturns ==
    /\ rt.pc = "ready"
    /\ rt' = [rt EXCEPT !.calls = @ + 1,
                        !.outcomes = Append(@, "ok"),
                        !.pc = "returned"]
    /\ UNCHANGED <<ccVars, htVars, shVars, rgVars, svVars, ftVars, now, cbVars, rlVars, clVars, rt_cfg>>

\* wrapper: the operation is invoked and raises; the error is not retryable
\* or this was the last attempt, and it is re-raised
RetryCallGivesUp(exc) ==
    /\ rt.pc = "ready"
    /\ gives_up(rt_cfg, rt.attempt, exc)
    /\ rt' = [rt EXCEPT !.calls = @ + 1,
                        !.outcomes = Append(@, exc.kind),
                        !.last_exception = exc,
                        !.raised = exc,
                        !.pc = "raised"]
    /\ UNCHANGED <<ccVars, htVars, shVars, rgVars, svVars, ftVars, now, cbVars, rlVars, clVars, rt_cfg>>

\* wrapper: the operation is invoked and raises; the wrapper waits before the
\* next attempt (a delay of 0 is not slept)
RetryCallBacksOff(exc) ==
    /\ rt.pc = "ready"
    /\ ~gives_up(rt_cfg, rt.attempt, exc)
    /\ \E delay \in retry_delays(rt_cfg, rt.attempt, exc) :
          rt' = [rt EXCEPT !.calls = @ + 1,
                           !.outcomes = Append(@, exc.kind),
                           !.last_exception = exc,
                           !.delays = Append(@, delay),
                           !.attempt = IF delay > 0 THEN @ ELSE @ + 1,
                           !.pc = IF delay > 0 THEN "sleeping" ELSE "ready"]
    /\ UNCHANGED <<ccVars, htVars, shVars, rgVars, svVars, ftVars, now, cbVars, rlVars, clVars, rt_cfg>>

\* wrapper: asyncio.sleep returns, the loop goes to the next attempt
RetrySleepEnds ==
    /\ rt.pc = "sleeping"
    /\ rt' = [rt EXCEPT !.attempt = @ + 1, !.pc = "ready"]
    /\ UNCHANGED <<ccVars, htVars, shVars, rgVars, svVars, ftVars, now, cbVars, rlVars, clVars, rt_cfg>>

NextRetry ==
    \/ RetryCallReturns
    \/ \E exc \in Raisable : RetryCallGivesUp(exc)
    \/ \E exc \in Raisable : RetryCallBacksOff(exc)
    \/ RetrySleepEnds

SpecRetry == InitRetry /\ [][NextRetry]_vars

----------------------------------------------------------------------------
(* Specification SpecClient: NumRequests concurrent requests through one      *)
(* BaseAPIClient: the retry wrapper around _make_request, which takes a       *)
(* rate-limit slot, passes the circuit breaker and calls safe_request         *)

Requests == 1..NumRequests

\* circuit_breaker_failure_threshold (5 by default), circuit_breaker_recovery_timeout
ClientCbConfigs ==
    [failure_threshold : {2, 5}, recovery_timeout : {60}, success_threshold : {1}]

\* the values a client is constructed with for max_retries
MaxRetriesValues == {1, DefaultMaxRetries}

InitClient ==
    /\ now = 0
    /\ cb_cfg \in ClientCbConfigs
    /\ CbStart
    /\ RlUnused
    /\ RtUnused
    /\ req = [r \in Requests |-> NewRequest]
    /\ FtUnused
    /\ client_cfg \in [max_retries : MaxRetriesValues]
    /\ HtUnused
    /\ ShUnused
    /\ RgUnused
    /\ SvUnused

\* the request is at the top of the retry loop: at its first attempt, or its
\* backoff sleep is over
AtLoopTop(r) ==
    \/ req[r].pc = "ready"
    \/ req[r].pc = "sleeping" /\ now >= req[r].wake

\* Mutant of takes_slot: only the first attempt of a request takes a slot.
takes_slot_first_attempt_only(attempt) == attempt = 0

\* "await self._rate_limiter.acquire()" is inside _make_request, which the retry
\* wrapper calls anew for every attempt: each attempt takes a slot
takes_slot(attempt) == attempt >= 0

\* the limiter after the attempt's acquire(), if it makes one
limiter_after(attempt) ==
    IF takes_slot(attempt) THEN acquire_body(limiter, rl_cfg, now).limiter ELSE limiter

\* the loop counter of the attempt that starts now
ThisAttempt(r) == IF req[r].pc = "sleeping" THEN req[r].attempt + 1 ELSE req[r].attempt

\* the request after its attempt raised exc at time t: the wrapper re-raises
\* it, or sleeps for delay before the next attempt
after_raise(rq, attempt, exc, delay, t) ==
    IF gives_up(ClientRetryCfg, attempt, exc)
    THEN [rq EXCEPT !.pc = "raised", !.attempt = attempt, !.wake = 0, !.raised = exc]
    ELSE [rq EXCEPT !.pc = "sleeping", !.attempt = attempt, !.wake = t + delay]

\* _make_request: acquire() admits the request at once (the quota is not
\* reached), the breaker is open: CircuitBreakerError leaves _make_request and
\* reaches the wrapper, for which it is not retryable
ClientAttemptBlocked(r) ==
    /\ AtLoopTop(r)
    /\ acquire_body(limiter, rl_cfg, now).kind = "admit"
    /\ call_gate(breaker, cb_cfg, now).state = OPEN
    /\ limiter' = limiter_after(ThisAttempt(r))
    /\ breaker' = call_gate(breaker, cb_cfg, now)
    /\ \E delay \in retry_delays(ClientRetryCfg, ThisAttempt(r), Exc("CircuitBreakerError", NoRetryAfter)) :
         req' = [req EXCEPT ![r] =
                   after_raise([req[r] EXCEPT !.acquired = IF takes_slot(ThisAttempt(r))
                                                           THEN @ + 1 ELSE @],
                               ThisAttempt(r), Exc("CircuitBreakerError", NoRetryAfter),
                               delay, now)]
    /\ UNCHANGED <<ccVars, htVars, shVars, rgVars, svVars, ftVars, now, cb_cfg, failed, call_pc, admitted_in, started, invoked, last, streak,
                   ho_succ, rl_cfg, lock_holder, lock_waiters, acq_pc, acq_wake, acquires,
                   admissions, ticks, rl_last, rtVars>>

\* _make_request: acquire() admits the request at once, the breaker lets the
\* call through, safe_request sends it
ClientAttemptSent(r) ==
    /\ AtLoopTop(r)
    /\ acquire_body(limiter, rl_cfg, now).kind = "admit"
    /\ call_gate(breaker, cb_cfg, now).state # OPEN
    /\ limiter' = limiter_after(ThisAttempt(r))
    /\ breaker' = call_gate(breaker, cb_cfg, now)
    /\ req' = [req EXCEPT ![r].pc = "inflight",
                          ![r].attempt = ThisAttempt(r),
                          ![r].wake = 0,
                          ![r].acquired = IF takes_slot(ThisAttempt(r)) THEN @ + 1 ELSE @,
                          ![r].sent = @ + 1]
    /\ UNCHANGED <<ccVars, htVars, shVars, rgVars, svVars, ftVars, now, cb_cfg, failed, call_pc, admitted_in, started, invoked, last, streak,
                   ho_succ, rl_cfg, lock_holder, lock_waiters, acq_pc, acq_wake, acquires,
                   admissions, ticks, rl_last, rtVars>>

\* safe_request returns the response: the breaker records a success and the
\* wrapper returns
ClientAttemptSucceeds(r, resp) ==
    /\ req[r].pc = "inflight"
    /\ safe_request(resp) = NoExc
    /\ breaker' = record_success(breaker, cb_cfg)
    /\ req' = [req EXCEPT ![r].pc = "returned", ![r].successes = @ + 1, ![r].answer = resp]
    /\ UNCHANGED <<ccVars, htVars, shVars, rgVars, svVars, ftVars, now, cb_cfg, failed, call_pc, admitted_in, started, invoked, last, streak,
                   ho_succ, rlVars, rtVars>>

\* the breaker after the wrapped call raised exc
after_exception(b, cfg, exc, t) ==
    IF IsInstance(exc.kind, ExpectedException) THEN record_failure(b, cfg, t) ELSE b

\* safe_request raises: the breaker records the failure if it is of the
\* expected type, then the wrapper re-raises or backs off
ClientAttemptFails(r, resp) ==
    /\ req[r].pc = "inflight"
    /\ safe_request(resp) # NoExc
    /\ breaker' = after_exception(breaker, cb_cfg, safe_request(resp), now)
    /\ \E delay \in retry_delays(ClientRetryCfg, req[r].attempt, safe_request(resp)) :
         req' = [req EXCEPT ![r] =
                   after_raise([req[r] EXCEPT
                                  !.failures = IF IsInstance(safe_request(resp).kind, ExpectedException)
                                               THEN @ + 1 ELSE @,
                                  !.answer = resp],
                               req[r].attempt, safe_request(resp), delay, now)]
    /\ UNCHANGED <<ccVars, htVars, shVars, rgVars, svVars, ftVars, now, cb_cfg, failed, call_pc, admitted_in, started, invoked, last, streak,
                   ho_succ, rlVars, rtVars>>

\* time passes
ClientTick(d) ==
    /\ ticks < MaxClientTicks
    /\ now' = now + d
    /\ ticks' = ticks + 1
    /\ UNCHANGED <<ccVars, htVars, shVars, rgVars, svVars, ftVars, cbVars, rtVars, clVars, rl_cfg, limiter, lock_holder, lock_waiters,
                   acq_pc, acq_wake, acquires, admissions, rl_last>>

NextClient ==
    \/ \E r \in Requests : ClientAttemptBlocked(r)
    \/ \E r \in Requests : ClientAttemptSent(r)
    \/ \E r \in Requests : \E resp \in Responses : ClientAttemptSucceeds(r, resp)
    \/ \E r \in Requests : \E resp \in Responses : ClientAttemptFails(r, resp)
    \/ \E d \in {1, 60} : ClientTick(d)

SpecClient == InitClient /\ [][NextClient]_vars

----------------------------------------------------------------------------
(* _update_card_price_async: one price update.  Its segments end at the    *)
(* awaits: the card lookup, PriceCharting's get_card_price, JustTCG's       *)
(* get_card_price and session.commit.                                      *)

InitFetch ==
    /\ now = 0
    /\ CbUnused
    /\ RlUnused
    /\ RtUnused
    /\ ClUnused
    /\ fetch = NewFetch
    /\ CcUnused
    /\ HtUnused
    /\ ShUnused
    /\ RgUnused
    /\ SvUnused

\* Mutant of after_try: JustTCG is called whatever PriceCharting produced.
after_try_always_falls_back(f) ==
    IF f.pc = "primary"
    THEN [f EXCEPT !.pc = "fallback", !.tried = Append(@, JUSTTCG)]
    ELSE IF f.price_data = NoData
    THEN [f EXCEPT !.pc = "done", !.result = "warning"]
    ELSE [f EXCEPT !.pc = "commit",
                   !.added = <<PriceHistory(f.price_data[1], f.data_source)>>]

\* what follows a try block: the next source is called when price_data is still
\* falsy; otherwise the PriceHistory row is added and the commit begins
after_try(f) ==
    IF f.price_data = NoData
    THEN IF f.pc = "primary"
         THEN [f EXCEPT !.pc = "fallback", !.tried = Append(@, JUSTTCG)]
         ELSE [f EXCEPT !.pc = "done", !.result = "warning"]
    ELSE [f EXCEPT !.pc = "commit",
                   !.added = <<PriceHistory(f.price_data[1], f.data_source)>>]

\* the card does not exist: {"error": ...} is returned
FetchCardNotFound ==
    /\ fetch.pc = "start"
    /\ fetch' = [fetch EXCEPT !.pc = "done", !.result = "error"]
    /\ UNCHANGED <<ccVars, htVars, shVars, rgVars, svVars, now, cbVars, rlVars, rtVars, clVars>>

\* the card exists: PriceCharting, the primary source, is called
FetchCardFound ==
    /\ fetch.pc = "start"
    /\ fetch' = [fetch EXCEPT !.pc = "primary", !.tried = <<PRICECHARTING>>]
    /\ UNCHANGED <<ccVars, htVars, shVars, rgVars, svVars, now, cbVars, rlVars, rtVars, clVars>>

\* PriceCharting's get_card_price raises
FetchPrimaryRaises(exc) ==
    /\ fetch.pc = "primary"
    /\ LET f == [fetch EXCEPT !.outcomes = Append(@, exc.kind)]
       IN  fetch' = IF primary_reraises(exc)
                    THEN [f EXCEPT !.pc = "raised", !.raised = exc.kind]
                    ELSE after_try(f)
    /\ UNCHANGED <<ccVars, htVars, shVars, rgVars, svVars, now, cbVars, rlVars, rtVars, clVars>>

\* PriceCharting's get_card_price returns None
FetchPrimaryReturnsNone ==
    /\ fetch.pc = "primary"
    /\ fetch' = after_try([fetch EXCEPT !.outcomes = Append(@, "None")])
    /\ UNCHANGED <<ccVars, htVars, shVars, rgVars, svVars, now, cbVars, rlVars, rtVars, clVars>>

\* PriceCharting's get_card_price returns a dict: it is transformed and validated;
\* a PriceValidationException raised by the validation is caught with price_data
\* still bound to the dict the client returned
FetchPrimaryReturnsData(pd) ==
    /\ fetch.pc = "primary"
    /\ LET f == [fetch EXCEPT !.data_source = PRICECHARTING,
                              !.returned = Append(@, [source |-> PRICECHARTING, payload |-> pd])]
       IN  fetch' = IF fails_validation(transformed_data(pd))
                    THEN after_try([f EXCEPT !.price_data = <<pd>>,
                                             !.outcomes = Append(@, "PriceValidationException")])
                    ELSE after_try([f EXCEPT !.price_data = <<transformed_data(pd)>>,
                                             !.outcomes = Append(@, "data")])
    /\ UNCHANGED <<ccVars, htVars, shVars, rgVars, svVars, now, cbVars, rlVars, rtVars, clVars>>

\* JustTCG's get_card_price raises
FetchFallbackRaises(exc) ==
    /\ fetch.pc = "fallback"
    /\ LET f == [fetch EXCEPT !.outcomes = Append(@, exc.kind)]
       IN  fetch' = IF fallback_reraises(exc)
                    THEN [f EXCEPT !.pc = "raised", !.raised = exc.kind]
                    ELSE after_try(f)
    /\ UNCHANGED <<ccVars, htVars, shVars, rgVars, svVars, now, cbVars, rlVars, rtVars, clVars>>

\* JustTCG's get_card_price returns None
FetchFallbackReturnsNone ==
    /\ fetch.pc = "fallback"
    /\ fetch' = after_try([fetch EXCEPT !.outcomes = Append(@, "None")])
    /\ UNCHANGED <<ccVars, htVars, shVars, rgVars, svVars, now, cbVars, rlVars, rtVars, clVars>>

\* JustTCG's get_card_price returns a dict: price_data is bound to it before the
\* validation, whose PriceValidationException is caught
FetchFallbackReturnsData(pd) ==
    /\ fetch.pc = "fallback"
    /\ fetch' = after_try([fetch EXCEPT
                    !.price_data = <<pd>>,
                    !.data_source = JUSTTCG,
                    !.returned = Append(@, [source |-> JUSTTCG, payload |-> pd]),
                    !.outcomes = Append(@, IF fails_validation(pd)
                                           THEN "PriceValidationException" ELSE "data")])
    /\ UNCHANGED <<ccVars, htVars, shVars, rgVars, svVars, now, cbVars, rlVars, rtVars, clVars>>

\* session.commit() succeeds: the success dict is returned
FetchCommitSucceeds ==
    /\ fetch.pc = "commit"
    /\ fetch' = [fetch EXCEPT !.pc = "done", !.result = "success", !.committed = TRUE]
    /\ UNCHANGED <<ccVars, htVars, shVars, rgVars, svVars, now, cbVars, rlVars, rtVars, clVars>>

\* session.commit() raises: the exception is logged and raised again
FetchCommitRaises ==
    /\ fetch.pc = "commit"
    /\ fetch' = [fetch EXCEPT !.pc = "raised", !.raised = "Exception"]
    /\ UNCHANGED <<ccVars, htVars, shVars, rgVars, svVars, now, cbVars, rlVars, rtVars, clVars>>

NextFetch ==
    \/ FetchCardNotFound
    \/ FetchCardFound
    \/ \E exc \in FetchExceptions : FetchPrimaryRaises(exc)
    \/ FetchPrimaryReturnsNone
    \/ \E pd \in PcPayloads : FetchPrimaryReturnsData(pd)
    \/ \E exc \in FetchExceptions : FetchFallbackRaises(exc)
    \/ FetchFallbackReturnsNone
    \/ \E pd \in JtPayloads : FetchFallbackReturnsData(pd)
    \/ FetchCommitSucceeds
    \/ FetchCommitRaises

SpecFetch == InitFetch /\ [][NextFetch]_vars

----------------------------------------------------------------------------
(* Claims about the circuit breaker, checked under Spec *)

BeginsCall == last'.op \in {"attempt", "blocked"}
Elapsed(b, t) == t - b.last_failure_time

\* C1: on a Closed breaker, the failure that completes a run of
\* failure_threshold consecutive expected failures (no success in between)
\* leaves the breaker Open, and a call() that comes next, before
\* recovery_timeout has elapsed, is rejected without invoking the function.
C1_OpensAtThreshold ==
    [][ /\ ( /\ last'.op = "failure"
             /\ breaker.state = CLOSED
             /\ streak' >= cb_cfg.failure_threshold )
           => breaker'.state = OPEN
        /\ ( /\ BeginsCall
             /\ last.op = "failure"
             /\ breaker.state = OPEN
             /\ streak >= cb_cfg.failure_threshold
             /\ Elapsed(breaker, now) < cb_cfg.recovery_timeout )
           => (last'.op = "blocked" /\ invoked' = invoked /\ call_pc' = call_pc)
      ]_vars

\* C1 witness: two or more consecutive failures opened the breaker and the
\* next call was rejected.
C1_Witness ==
    /\ last.op = "blocked"
    /\ cb_cfg.failure_threshold >= 2
    /\ streak = cb_cfg.failure_threshold
    /\ breaker.state = OPEN
    /\ breaker.failure_count = cb_cfg.failure_threshold

\* C7: no outcome of call() takes the breaker from Open to Closed in one
\* step; the only direct Open-to-Closed step is reset().
C7_OpenNeverDirectlyClosed ==
    [][ (breaker.state = OPEN /\ breaker'.state = CLOSED) => last'.op = "reset" ]_vars

\* C7 witness: a call let through earlier records its success while the
\* breaker is Open, and the breaker stays Open.
C7_Witness ==
    /\ last.op = "success"
    /\ breaker.state = OPEN
    /\ breaker.failure_count = 0

\* C8: while HalfOpen, one expected failure moves the breaker to Open at once,
\* whatever failure_threshold is, and restarts the recovery clock, so that a
\* call made right then would be rejected.
C8_HalfOpenFailureReopens ==
    [][ (last'.op = "failure" /\ breaker.state = HALF_OPEN)
        => /\ breaker'.state = OPEN
           /\ breaker'.last_failure_time = now'
           /\ call_gate(breaker', cb_cfg, now').state = OPEN
      ]_vars

\* C8 witness: a half-open failure below the failure threshold reopened the
\* breaker.
C8_Witness ==
    /\ last.op = "failure"
    /\ breaker.state = OPEN
    /\ breaker.failure_count < cb_cfg.failure_threshold
    /\ breaker.last_failure_time = now
    /\ now > 0

\* C9: while Open with less than recovery_timeout elapsed since
\* last_failure_time, a call() is rejected, the function is not invoked and
\* the breaker is unchanged; a call() made once recovery_timeout has elapsed
\* moves the breaker to HalfOpen and is let through.
C9_OpenRejectsUntilTimeout ==
    [][ /\ ( /\ BeginsCall
             /\ breaker.state = OPEN
             /\ breaker.last_failure_time # NoTime
             /\ Elapsed(breaker, now) < cb_cfg.recovery_timeout )
           => /\ last'.op = "blocked"
              /\ invoked' = invoked
              /\ call_pc' = call_pc
              /\ breaker' = breaker
        /\ ( /\ BeginsCall
             /\ breaker.state = OPEN
             /\ breaker.last_failure_time # NoTime
             /\ Elapsed(breaker, now) >= cb_cfg.recovery_timeout )
           => /\ last'.op = "attempt"
              /\ breaker'.state = HALF_OPEN
              /\ invoked' = invoked + 1
              /\ call_pc'[last'.task] = "running"
      ]_vars

\* C9 witness: a call was let through as the half-open probe exactly when
\* recovery_timeout had elapsed, after an earlier call had been rejected.
C9_Witness ==
    /\ last.op = "attempt"
    /\ breaker.state = HALF_OPEN
    /\ now - breaker.last_failure_time = cb_cfg.recovery_timeout
    /\ started > invoked

\* C10: a HalfOpen breaker is closed by a call outcome exactly when
\* success_threshold successes have been recorded while HalfOpen with no
\* expected failure in between, not earlier; at that moment failure_count and
\* success_count are 0.  (reset() is the manual override of C7.)
C10_ClosesAtSuccessThreshold ==
    [][ /\ (breaker.state = HALF_OPEN /\ breaker'.state = CLOSED /\ last'.op # "reset")
           => /\ last'.op = "success"
              /\ ho_succ' = cb_cfg.success_threshold
              /\ breaker'.failure_count = 0
              /\ breaker'.success_count = 0
        /\ (breaker.state = HALF_OPEN /\ last'.op = "success"
              /\ ho_succ' >= cb_cfg.success_threshold)
           => breaker'.state = CLOSED
        /\ (breaker.state = HALF_OPEN /\ last'.op = "success"
              /\ ho_succ' < cb_cfg.success_threshold)
           => breaker'.state = HALF_OPEN
      ]_vars

\* C10 witness: the breaker closed on the second half-open success.
C10_Witness ==
    /\ last.op = "success"
    /\ breaker.state = CLOSED
    /\ ho_succ = 2
    /\ cb_cfg.success_threshold = 2

----------------------------------------------------------------------------
(* Claims about the rate limiter, checked under SpecLimiter *)

\* the number of admissions in the window (t - w, t]
InWindow(t, w) == Cardinality({i \in 1..Len(admissions) : admissions[i] > t - w})

\* C2: every acquire() call returns once time advances.  A caller that cannot
\* return however much time passes refutes it: a caller queued on the
\* limiter's lock while the holder of that lock is itself queued on it can
\* never be admitted.  The claim requires that this never happens.
C2_AcquireAlwaysReturns ==
    \A c \in Callers :
        acq_pc[c] = "lock_wait" =>
            (lock_holder = 0 \/ acq_pc[lock_holder] # "lock_wait")

\* C3: at the moment a request is admitted, the admissions in the trailing
\* 60 s, the new one included, number at most requests_per_minute, and with
\* an hourly quota those in the trailing 3600 s at most requests_per_hour.
C3_QuotaAtAdmission ==
    rl_last.op = "admit" =>
        /\ InWindow(now, MinuteWindow) <= rl_cfg.requests_per_minute
        /\ rl_cfg.requests_per_hour # NoQuota =>
               InWindow(now, HourWindow) <= rl_cfg.requests_per_hour

\* C3 witness: more requests than the minute quota have been admitted over
\* time, the last one into a window that it fills, while another caller that
\* found the quota full is held back.
C3_Witness ==
    /\ rl_last.op = "admit"
    /\ Len(admissions) > rl_cfg.requests_per_minute
    /\ InWindow(now, MinuteWindow) = rl_cfg.requests_per_minute
    /\ rl_cfg.requests_per_minute = 2

----------------------------------------------------------------------------
(* Claims about the retry wrapper, checked under SpecRetry *)

AllRetryable(outcomes) ==
    \A i \in 1..Len(outcomes) :
        outcomes[i] \in {"TransientError", "NetworkError", "TimeoutError", "RateLimitError"}

NeverRetried == {"PermanentError", "AuthenticationError", "ValidationError"}

\* C4: with max_attempts = k, an operation that fails with a retryable error
\* on every invocation is invoked exactly k times with exactly k-1 delays in
\* between and then its last error is re-raised; an operation that fails with
\* a Permanent, Authentication or Validation error is invoked once and its
\* error is re-raised with no delay.
C4_AttemptsAndDelays ==
    /\ rt.calls <= rt_cfg.max_attempts
    /\ (AllRetryable(rt.outcomes) /\ rt.calls = rt_cfg.max_attempts)
         => /\ rt.pc = "raised"
            /\ rt.raised.kind = rt.outcomes[rt.calls]
            /\ Len(rt.delays) = rt_cfg.max_attempts - 1
    /\ (AllRetryable(rt.outcomes) /\ rt.calls < rt_cfg.max_attempts)
         => /\ rt.pc \in {"ready", "sleeping"}
            /\ Len(rt.delays) = rt.calls
    /\ (rt.calls >= 1 /\ rt.outcomes[1] \in NeverRetried)
         => /\ rt.calls = 1
            /\ rt.pc = "raised"
            /\ rt.raised.kind = rt.outcomes[1]
            /\ rt.delays = <<>>

\* C4 witness: three attempts failed with retryable errors, two delays were
\* waited in between and the last error was re-raised.
C4_Witness ==
    /\ rt_cfg.max_attempts = 3
    /\ rt.calls = 3
    /\ AllRetryable(rt.outcomes)
    /\ rt.pc = "raised"
    /\ Len(rt.delays) = 2
    /\ rt.delays[1] > 0

----------------------------------------------------------------------------
(* Claims about the client, checked under SpecClient *)

\* C5: one client request is one logical call for the breaker: a request
\* whose attempts (all max_attempts of them) fail with retryable errors has
\* recorded exactly one failure when it ends, and a request that succeeds
\* has recorded exactly one success and no failure.
C5_OneLogicalCallPerRequest ==
    \A r \in Requests :
        /\ (req[r].pc = "raised" /\ req[r].sent = ClientRetryCfg.max_attempts)
             => req[r].failures = 1
        /\ req[r].pc = "returned"
             => (req[r].successes = 1 /\ req[r].failures = 0)

----------------------------------------------------------------------------
(* Claims about the fallback chain, checked under SpecFetch *)

\* the update is over: it returned or it raised
FetchEnded == fetch.pc \in {"done", "raised"}

\* the ways a source's try block ends in failure
SourceFailures ==
    {"RateLimitException", "AuthenticationException", "PriceValidationException",
     "NetworkException", "Exception"}

----------------------------------------------------------------------------
(* More claims about the retry wrapper, checked under SpecRetry *)

\* the last invocation failed and the wrapper went on to wait for the next one
BackedOff == rt.calls >= 1 /\ Len(rt.delays) = rt.calls

\* C11: when an attempt fails with a RateLimitError that carries a provider
\* retry_after T (any T >= 0) and attempts remain, the delay before the next
\* attempt is exactly T and not the exponential backoff.
C11_RetryAfterIsTheDelay ==
    (BackedOff /\ rt.last_exception.kind = "RateLimitError"
               /\ rt.last_exception.retry_after # NoRetryAfter)
        => rt.delays[rt.calls] = rt.last_exception.retry_after

----------------------------------------------------------------------------
(* More claims about the fallback chain, checked under SpecFetch *)

\* C12: a source whose payload has no usable market_price (absent, None or
\* zero) counts as failed: the update never ends in success, and no
\* PriceHistory row is added or committed, with market_price unusable.
C12_NoSuccessWithoutMarketPrice ==
    (fetch.result = "success" \/ fetch.committed \/ fetch.added # <<>>)
        => Truthy(fetch.added[1].market_price)

----------------------------------------------------------------------------
(* Specification SpecService: NumRequests concurrent price-fetch requests   *)
(* to one external service.  Each request constructs its own client        *)
(* ("async with PriceChartingClient() as client"), and the client's        *)
(* requests go through the RateLimiter made by its constructor.            *)

InitService ==
    /\ now = 0
    /\ svc \in {NewService(cfg) :
                  cfg \in [requests_per_minute : 1..MaxMinuteQuota, requests_per_hour : {NoQuota}]}
    /\ CbUnused
    /\ RlUnused
    /\ RtUnused
    /\ ClUnused
    /\ FtUnused
    /\ CcUnused
    /\ HtUnused
    /\ ShUnused
    /\ RgUnused

\* the request constructs its client
ServiceClientConstructed(r) ==
    /\ svc.client[r].pc = "none"
    /\ svc' = [svc EXCEPT !.client[r] = NewClient]
    /\ UNCHANGED <<ccVars, htVars, shVars, rgVars, now, cbVars, rlVars, rtVars, clVars, ftVars>>

\* the client's acquire() finds room in its own limiter: the request goes out
ServiceAcquireAdmitted(r) ==
    /\ svc.client[r].pc = "idle"
    /\ svc.client[r].calls < MaxSvcCalls
    /\ acquire_body(svc.client[r].rate_limiter, svc.cfg, now).kind = "admit"
    /\ svc' = [svc EXCEPT
                 !.client[r].rate_limiter =
                     acquire_body(svc.client[r].rate_limiter, svc.cfg, now).limiter,
                 !.client[r].calls = @ + 1,
                 !.admitted = Append(@, now)]
    /\ UNCHANGED <<ccVars, htVars, shVars, rgVars, now, cbVars, rlVars, rtVars, clVars, ftVars>>

\* the client's acquire() finds its own limiter full and sleeps under the lock
ServiceAcquireSleeps(r) ==
    /\ svc.client[r].pc = "idle"
    /\ svc.client[r].calls < MaxSvcCalls
    /\ acquire_body(svc.client[r].rate_limiter, svc.cfg, now).kind = "sleep"
    /\ svc' = [svc EXCEPT
                 !.client[r].rate_limiter =
                     acquire_body(svc.client[r].rate_limiter, svc.cfg, now).limiter,
                 !.client[r].wake =
                     now + acquire_body(svc.client[r].rate_limiter, svc.cfg, now).sleep_time,
                 !.client[r].pc = "sleeping"]
    /\ UNCHANGED <<ccVars, htVars, shVars, rgVars, now, cbVars, rlVars, rtVars, clVars, ftVars>>

\* the sleep is over: the inner acquire() queues on the lock its caller holds
ServiceAcquireWakes(r) ==
    /\ svc.client[r].pc = "sleeping"
    /\ now >= svc.client[r].wake
    /\ svc' = [svc EXCEPT !.client[r].pc = "lock_wait"]
    /\ UNCHANGED <<ccVars, htVars, shVars, rgVars, now, cbVars, rlVars, rtVars, clVars, ftVars>>

\* the request is done with its client ("async with" exits)
ServiceClientClosed(r) ==
    /\ svc.client[r].pc = "idle"
    /\ svc' = [svc EXCEPT !.client[r].pc = "closed"]
    /\ UNCHANGED <<ccVars, htVars, shVars, rgVars, now, cbVars, rlVars, rtVars, clVars, ftVars>>

\* time passes
ServiceTick(d) ==
    /\ svc.ticks < MaxSvcTicks
    /\ now' = now + d
    /\ svc' = [svc EXCEPT !.ticks = @ + 1]
    /\ UNCHANGED <<ccVars, htVars, shVars, rgVars, cbVars, rlVars, rtVars, clVars, ftVars>>

NextService ==
    \/ \E r \in 1..NumRequests : ServiceClientConstructed(r)
    \/ \E r \in 1..NumRequests : ServiceAcquireAdmitted(r)
    \/ \E r \in 1..NumRequests : ServiceAcquireSleeps(r)
    \/ \E r \in 1..NumRequests : ServiceAcquireWakes(r)
    \/ \E r \in 1..NumRequests : ServiceClientClosed(r)
    \/ \E d \in {1, MinuteWindow - 1} : ServiceTick(d)

SpecService == InitService /\ [][NextService]_vars

\* the number of requests sent to the service in the window (t - w, t]
SentInWindow(t, w) == Cardinality({i \in 1..Len(svc.admitted) : svc.admitted[i] > t - w})

\* C13: the requests concurrently made to one service share one rate window:
\* the requests admitted for the service in any trailing 60 s never number
\* more than its requests_per_minute, also when every price-fetch request
\* constructs its own client.
C13_ServiceQuotaShared ==
    SentInWindow(now, MinuteWindow) <= svc.cfg.requests_per_minute

----------------------------------------------------------------------------
(* More claims about the circuit breaker, checked under Spec *)

\* C14: while the breaker is Closed every successful call sets failure_count
\* to 0, so failure_count is the length of the current run of expected
\* failures, that run is shorter than failure_threshold, and the breaker
\* leaves Closed only by the failure that makes the run failure_threshold long.
C14_ClosedCountsConsecutiveFailures ==
    /\ [](breaker.state = CLOSED =>
            (breaker.failure_count = streak /\ streak < cb_cfg.failure_threshold))
    /\ [][ /\ (last'.op = "success" /\ breaker.state = CLOSED)
              => (breaker'.failure_count = 0 /\ breaker'.state = CLOSED)
           /\ (breaker.state = CLOSED /\ breaker'.state # CLOSED)
              => (last'.op = "failure" /\ streak' >= cb_cfg.failure_threshold)
         ]_vars

\* C14 witness: failure_threshold expected failures have been recorded, with
\* a success between them, and the breaker is still Closed.
C14_Witness ==
    /\ breaker.state = CLOSED
    /\ cb_cfg.failure_threshold = 2
    /\ failed = cb_cfg.failure_threshold
    /\ started = 3
    /\ invoked = 3
    /\ \A t \in Tasks : call_pc[t] = "idle"
    /\ last.op = "failure"
    /\ breaker.failure_count = 1

\* C15: a call() whose function raises an exception that is no instance of
\* expected_exception raises it to the caller and leaves state, failure_count,
\* success_count and last_failure_time as they were, whether the call was let
\* through Closed or Half-Open.
C15_UnexpectedExceptionChangesNothing ==
    [][ last'.op = "unexpected"
          => /\ breaker' = breaker
             /\ call_pc[last'.task] = "running"
             /\ call_pc'[last'.task] = "idle" ]_vars

\* C15 witness: a call let through a Half-Open breaker with failures on record
\* raised an unexpected exception, and the breaker is still Half-Open.
C15_Witness ==
    /\ last.op = "unexpected"
    /\ admitted_in[last.task] = HALF_OPEN
    /\ breaker.state = HALF_OPEN
    /\ breaker.failure_count >= 1
    /\ breaker.last_failure_time # NoTime

----------------------------------------------------------------------------
(* Specification SpecRegistry: NumTasks concurrent tasks asking one         *)
(* CircuitBreakerRegistry for breakers by name.  get_or_create has no       *)
(* suspension point between taking self._lock and releasing it, and no      *)
(* other coroutine holds that lock across a suspension, so each call is one *)
(* uninterrupted segment; the calls of different tasks interleave freely.   *)

InitRegistry ==
    /\ now = 0
    /\ registry = NewRegistry
    /\ CbUnused
    /\ RlUnused
    /\ RtUnused
    /\ ClUnused
    /\ FtUnused
    /\ CcUnused
    /\ HtUnused
    /\ ShUnused
    /\ SvUnused

\* task t calls get_or_create(name, ...) and keeps what it returns
RegistryGetOrCreate(t, name) ==
    /\ registry.calls < MaxRegistryCalls
    /\ LET r == get_or_create(registry.breakers, name, registry.objects + 1)
       IN  registry' = [registry EXCEPT
                          !.breakers = r.breakers,
                          !.objects = IF r.created THEN @ + 1 ELSE @,
                          !.created[name] = IF r.created THEN @ + 1 ELSE @,
                          !.held[t][name] = r.returned,
                          !.calls = @ + 1,
                          !.last = Op("get_or_create", t)]
    /\ UNCHANGED <<ccVars, htVars, shVars, now, cbVars, rlVars, rtVars, clVars, ftVars, svVars>>

\* task t records a failure through the breaker it was handed for name
RegistryRecordFailure(t, name) ==
    /\ registry.held[t][name] # NoBreaker
    /\ registry.failure_count[registry.held[t][name]] < MaxRegistryFailures
    /\ registry' = [registry EXCEPT
                      !.failure_count[registry.held[t][name]] = @ + 1,
                      !.last = Op("failure", t)]
    /\ UNCHANGED <<ccVars, htVars, shVars, now, cbVars, rlVars, rtVars, clVars, ftVars, svVars>>

NextRegistry ==
    \/ \E t \in Tasks : \E name \in BreakerNames : RegistryGetOrCreate(t, name)
    \/ \E t \in Tasks : \E name \in BreakerNames : RegistryRecordFailure(t, name)

SpecRegistry == InitRegistry /\ [][NextRegistry]_vars

\* C16: however concurrent get_or_create calls interleave, one CircuitBreaker
\* is created per name and every caller is handed that one, so that a failure
\* recorded through one caller's breaker is seen through every other caller's.
C16_OneBreakerPerName ==
    \A name \in BreakerNames :
        /\ registry.created[name] <= 1
        /\ \A t \in Tasks :
              registry.held[t][name] # NoBreaker =>
                  /\ registry.created[name] = 1
                  /\ registry.held[t][name] = registry.breakers[name]
        /\ \A t, u \in Tasks :
              (registry.held[t][name] # NoBreaker /\ registry.held[u][name] # NoBreaker)
                  => registry.failure_count[registry.held[t][name]]
                       = registry.failure_count[registry.held[u][name]]

\* C16 witness: two tasks asked for the same name, one breaker was created,
\* and the failure one of them just recorded is on the breaker the other holds.
C16_Witness ==
    \E name \in BreakerNames : \E t, u \in Tasks :
        /\ t # u
        /\ registry.last = Op("failure", t)
        /\ registry.held[t][name] # NoBreaker
        /\ registry.held[u][name] # NoBreaker
        /\ registry.created[name] = 1
        /\ registry.failure_count[registry.held[u][name]] >= 1

----------------------------------------------------------------------------
(* More claims about the client, checked under SpecClient *)

\* the times request r has consulted the circuit breaker: once for every
\* network call sent and once if the breaker rejected it
Consulted(r) ==
    req[r].sent + (IF req[r].raised.kind = "CircuitBreakerError" THEN 1 ELSE 0)

\* the slots taken by requests 1..n together
RECURSIVE SlotsTaken(_)
SlotsTaken(n) == IF n = 0 THEN 0 ELSE req[n].acquired + SlotsTaken(n - 1)

\* C17: within a request every attempt, the first and each retry, completes
\* RateLimiter.acquire() before it consults the circuit breaker: every
\* consultation, and so every network call sent, has its own rate-limit slot,
\* and the limiter holds a slot for every network call of every request.
C17_SlotBeforeBreaker ==
    /\ \A r \in Requests : req[r].acquired = Consulted(r) /\ req[r].sent <= req[r].acquired
    /\ ticks = 0 => Len(limiter.minute_requests) = SlotsTaken(NumRequests)

\* C17 witness: a request made three network attempts, each with its own
\* slot, and another was rejected by the breaker on a retry after taking a slot.
C17_Witness ==
    \E r, q \in Requests :
        /\ req[r].sent = 3
        /\ req[r].acquired = 3
        /\ req[q].raised.kind = "CircuitBreakerError"
        /\ req[q].sent >= 1
        /\ req[q].acquired = req[q].sent + 1

----------------------------------------------------------------------------
(* Specification SpecSearch: one search_all_sources call, started at time 0. *)
(* The four source coroutines run concurrently; each returns, raises         *)
(* HTTPException (its own "except Exception" turns every failure into one)   *)
(* or keeps running.  The event loop fires the wait_for timer when the       *)
(* timeout has elapsed: time does not pass it while the gather is pending.   *)

InitSearch ==
    /\ now = 0
    /\ search = NewSearch
    /\ CbUnused
    /\ RlUnused
    /\ RtUnused
    /\ ClUnused
    /\ FtUnused
    /\ CcUnused
    /\ HtUnused
    /\ SvUnused
    /\ RgUnused

\* a source's coroutine returns its list of results, empty or not
SearchSourceReturns(s, found) ==
    /\ search.pc = "gathering"
    /\ search.task[s] = "running"
    /\ search' = [search EXCEPT !.task[s] = IF found THEN "hits" ELSE "empty"]
    /\ UNCHANGED <<ccVars, htVars, now, cbVars, rlVars, rtVars, clVars, ftVars, svVars, rgVars>>

\* a source's coroutine raises HTTPException
SearchSourceFails(s) ==
    /\ search.pc = "gathering"
    /\ search.task[s] = "running"
    /\ search' = [search EXCEPT !.task[s] = "HTTPException"]
    /\ UNCHANGED <<ccVars, htVars, now, cbVars, rlVars, rtVars, clVars, ftVars, svVars, rgVars>>

\* every task is done: gather completes, wait_for returns, the results are
\* collected and returned
SearchGathered ==
    /\ search.pc = "gathering"
    /\ \A s \in SourceNames : search.task[s] # "running"
    /\ search' = IF gather(search.task).raised
                 THEN [search EXCEPT !.pc = "raised", !.returned_at = now]
                 ELSE [search EXCEPT
                         !.pc = "returned",
                         !.results = collect(search.results, gather(search.task).gathered, 1),
                         !.returned_at = now]
    /\ UNCHANGED <<ccVars, htVars, now, cbVars, rlVars, rtVars, clVars, ftVars, svVars, rgVars>>

\* the timeout elapses with a task still running: wait_for cancels the gather,
\* which cancels the tasks that are not done, and raises TimeoutError
SearchTimesOut ==
    /\ search.pc = "gathering"
    /\ now >= SearchTimeout
    /\ \E s \in SourceNames : search.task[s] = "running"
    /\ search' = [search EXCEPT
                    !.pc = "returned",
                    !.task = [s \in SourceNames |->
                                IF search.task[s] = "running" THEN "cancelled" ELSE search.task[s]],
                    !.results = on_timeout(search.results, search.task),
                    !.returned_at = now]
    /\ UNCHANGED <<ccVars, htVars, now, cbVars, rlVars, rtVars, clVars, ftVars, svVars, rgVars>>

\* time passes, but not past the wait_for timer while it is armed
SearchTick(d) ==
    /\ now + d <= MaxSearchTime
    /\ search.pc = "gathering" => now + d <= SearchTimeout
    /\ now' = now + d
    /\ UNCHANGED <<ccVars, htVars, search, cbVars, rlVars, rtVars, clVars, ftVars, svVars, rgVars>>

NextSearch ==
    \/ \E s \in SourceNames : \E found \in BOOLEAN : SearchSourceReturns(s, found)
    \/ \E s \in SourceNames : SearchSourceFails(s)
    \/ SearchGathered
    \/ SearchTimesOut
    \/ \E d \in {10, 20} : SearchTick(d)

SpecSearch == InitSearch /\ [][NextSearch]_vars

\* C18: a source that fails or exceeds the deadline is an error for that
\* source only: when the search returns, the results of every source that
\* completed successfully are in the returned dict, whatever the other
\* sources did.
C18_PartialResultsKept ==
    search.pc = "returned" =>
        \A s \in SourceNames : search.task[s] = "hits" => search.results.lists[s] = "hits"

\* C19: the search returns a result no later than its overall deadline and
\* never raises to its caller, whatever the sources do: fail, hang, or wait.
C19_ReturnsByDeadline ==
    /\ search.pc # "raised"
    /\ search.pc = "gathering" => now <= SearchTimeout
    /\ search.pc = "returned" =>
         /\ search.returned_at <= SearchTimeout
         /\ \A s \in SourceNames : search.task[s] # "running"

\* C19 witness: one source failed, another never answered and was cancelled
\* at the deadline, and the search returned then with the time-out error.
C19_Witness ==
    /\ search.pc = "returned"
    /\ search.returned_at = SearchTimeout
    /\ \E s \in SourceNames : search.task[s] = "HTTPException"
    /\ \E s \in SourceNames : search.task[s] = "cancelled"
    /\ search.results.errors = <<TimedOutError>>
    /\ now > SearchTimeout

----------------------------------------------------------------------------
(* Claims about the order and the provenance of the fallback chain, checked *)
(* under SpecFetch                                                          *)

\* the rows that can be built from what one source returned: from the dict
\* itself, or for PriceCharting from its transformation
QuotesOf(ret) ==
    IF ret.source = PRICECHARTING
    THEN {PriceHistory(transformed_data(ret.payload), PRICECHARTING),
          PriceHistory(ret.payload, PRICECHARTING)}
    ELSE {PriceHistory(ret.payload, JUSTTCG)}

\* C20: the sources are tried in the order PriceCharting, JustTCG; JustTCG is
\* called only if PriceCharting produced no data; and on success every price
\* field of the recorded row and its source come from the one source that
\* returned data, never from two.
C20_OrderedAndUnmixed ==
    /\ fetch.tried \in {<<>>, <<PRICECHARTING>>, <<PRICECHARTING, JUSTTCG>>}
    /\ Len(fetch.tried) = 2 =>
         /\ Len(fetch.outcomes) >= 1
         /\ fetch.outcomes[1] # "data"
         /\ \A i \in 1..Len(fetch.returned) : fetch.returned[i].source # PRICECHARTING
    /\ fetch.result = "success" =>
         /\ Len(fetch.returned) = 1
         /\ fetch.committed
         /\ fetch.added[1] \in QuotesOf(fetch.returned[1])

\* C20 witness: PriceCharting failed, JustTCG returned prices, and the row
\* committed carries JustTCG's prices and JustTCG as its source.
C20_Witness ==
    /\ fetch.result = "success"
    /\ fetch.tried = <<PRICECHARTING, JUSTTCG>>
    /\ fetch.outcomes = <<"NetworkException", "data">>
    /\ fetch.added[1].source = JUSTTCG
    /\ fetch.added[1].market_price = 50
    /\ fetch.added[1] = PriceHistory(fetch.returned[1].payload, JUSTTCG)

----------------------------------------------------------------------------
(* Claims about the end of the fallback chain, checked under SpecFetch *)

\* the ways a source's call ends without data: an exception, or None
NoDataOutcomes == SourceFailures \cup {"None"}

\* both sources were called and neither ended with data
AllSourcesFailed ==
    /\ FetchEnded
    /\ Len(fetch.outcomes) = 2
    /\ \A i \in 1..2 : fetch.outcomes[i] \in NoDataOutcomes

\* the failures the returned dict lists, as <<source, kind>> pairs: the dict
\* returned when no source gave data holds one message with the card id only
named_failures(f) == <<>>

\* C21: when every source of the fallback chain has failed, the update ends
\* without raising and without a PriceHistory row, and the dict it returns
\* names each source with the kind of its failure.
C21_AggregateFailureResult ==
    AllSourcesFailed =>
        /\ fetch.raised = "none"
        /\ fetch.added = <<>>
        /\ fetch.result = "warning"
        /\ named_failures(fetch) =
             [i \in 1..2 |-> <<fetch.tried[i], fetch.outcomes[i]>>]

----------------------------------------------------------------------------
(* Specification SpecHttp: one safe_request call.  client.request answers   *)
(* with a response or raises; handle_http_error classifies a response that  *)
(* is no success and raises; the except clauses of safe_request decide what *)
(* leaves it.  classify_http_error may also be called on the response by    *)
(* other callers (classify_exception, the tests).                           *)

InitHttp ==
    /\ now = 0
    /\ CbUnused
    /\ RlUnused
    /\ RtUnused
    /\ ClUnused
    /\ FtUnused
    /\ CcUnused
    /\ SvUnused
    /\ RgUnused
    /\ ShUnused
    /\ http = NewHttp

\* client.request returns a response or raises
HttpAnswered(resp) ==
    /\ http.pc = "sending"
    /\ http' = [http EXCEPT !.pc = "answered", !.resp = resp]
    /\ UNCHANGED <<ccVars, now, cbVars, rlVars, rtVars, clVars, ftVars, svVars, rgVars, shVars>>

\* classify_http_error(response), called on the response once more
HttpClassified ==
    /\ http.pc # "sending"
    /\ http.resp.type = "response"
    /\ Len(http.kinds) < MaxClassify
    /\ http' = [http EXCEPT !.kinds = Append(@, classify_http_error(http.resp.status))]
    /\ UNCHANGED <<ccVars, now, cbVars, rlVars, rtVars, clVars, ftVars, svVars, rgVars, shVars>>

\* handle_http_error(response) returns, or raises the error of the class
\* classify_http_error gives
HttpHandled ==
    /\ http.pc = "answered"
    /\ http.resp.type = "response"
    /\ http' = [http EXCEPT !.pc = "handled", !.inner = handle_http_error(http.resp)]
    /\ UNCHANGED <<ccVars, now, cbVars, rlVars, rtVars, clVars, ftVars, svVars, rgVars, shVars>>

\* safe_request returns the response or raises through one of its except clauses
HttpLeaves ==
    /\ IF http.resp.type = "response" THEN http.pc = "handled" ELSE http.pc = "answered"
    /\ http' = [http EXCEPT !.pc = "left", !.out = safe_request(http.resp)]
    /\ UNCHANGED <<ccVars, now, cbVars, rlVars, rtVars, clVars, ftVars, svVars, rgVars, shVars>>

NextHttp ==
    \/ \E resp \in HttpAnswers : HttpAnswered(resp)
    \/ HttpClassified
    \/ HttpHandled
    \/ HttpLeaves

SpecHttp == InitHttp /\ [][NextHttp]_vars

----------------------------------------------------------------------------
(* Claims about the error classifier, checked under SpecHttp *)

\* the kind each status is to be given
KindOfStatus(status) ==
    CASE status = 429 -> "RateLimitError"
      [] status \in {401, 403} -> "AuthenticationError"
      [] status = 422 -> "ValidationError"
      [] status \in 400..499 /\ status \notin {401, 403, 422, 429} -> "PermanentError"
      [] status \in 500..599 -> "TransientError"
      [] OTHER -> "TransientError"

\* the answer is a response whose status is not 2xx
NonSuccess(resp) == resp.type = "response" /\ resp.status \notin 200..299

\* C22: classify_http_error gives every non-2xx status exactly one kind (429
\* RateLimited; 401 and 403 Authentication; 422 Validation; any other 4xx
\* Permanent; 5xx Transient; anything else Transient), and classifying the
\* same response again gives the same kind.
C22_ClassifierTable ==
    NonSuccess(http.resp) =>
        /\ \A i \in 1..Len(http.kinds) : http.kinds[i] = KindOfStatus(http.resp.status)
        /\ \A i, j \in 1..Len(http.kinds) : http.kinds[i] = http.kinds[j]
        /\ http.pc \in {"handled", "left"} => http.inner.kind = KindOfStatus(http.resp.status)

\* C22 witness: a 403 response was classified twice, both times as Authentication.
C22_Witness ==
    /\ http.resp.type = "response"
    /\ http.resp.status = 403
    /\ http.kinds = <<"AuthenticationError", "AuthenticationError">>
    /\ http.pc = "handled"
    /\ http.inner.kind = "AuthenticationError"

\* C24: for every non-2xx response the error that leaves safe_request has the
\* kind the classifier gives the status, and for 429 it carries the parsed
\* Retry-After value; it is never replaced by a generic Transient error.
C24_KindSurvivesSafeRequest ==
    (http.pc = "left" /\ NonSuccess(http.resp)) =>
        /\ http.out.kind = classify_http_error(http.resp.status)
        /\ http.resp.status = 429 => http.out.retry_after = http.resp.retry_after

----------------------------------------------------------------------------
(* More claims about the client, checked under SpecClient *)

\* the provider answered with a 4xx status other than 429
ClientErrorAnswer(resp) ==
    resp.type = "response" /\ resp.status \in 400..499 /\ resp.status # 429

\* C23: a request the provider answers with 401, 403, 422 or any other 4xx
\* status but 429 is not retried: once such an answer has come, the error has
\* been raised to the caller, with no backoff sleep and no further attempt.
C23_ClientErrorsNotRetried ==
    \A r \in Requests :
        ClientErrorAnswer(req[r].answer) =>
            /\ req[r].pc = "raised"
            /\ req[r].wake = 0
            /\ req[r].attempt = 0 => req[r].sent = 1

\* the attempt request r is about to make finds the breaker open
FindsOpen(r) ==
    /\ AtLoopTop(r)
    /\ acquire_body(limiter, rl_cfg, now).kind = "admit"
    /\ call_gate(breaker, cb_cfg, now).state = OPEN

\* C25: an attempt that finds the breaker Open raises CircuitBreakerError to
\* the caller with no network call, no retry and no backoff sleep; this holds
\* for a first attempt and for the attempts left to a request during whose
\* retries the breaker opened.
C25_OpenBreakerEndsRequest ==
    /\ [](\A r \in Requests :
            req[r].raised.kind = "CircuitBreakerError" => req[r].pc = "raised")
    /\ [][\A r \in Requests :
            (FindsOpen(r) /\ req'[r] # req[r]) =>
                /\ req'[r].pc = "raised"
                /\ req'[r].raised.kind = "CircuitBreakerError"
                /\ req'[r].sent = req[r].sent
                /\ req'[r].wake = 0]_vars

\* C25 witness: a request made two attempts, both failed and opened the
\* breaker, and its third attempt was rejected and not sent.
C25_Witness ==
    \E r \in Requests :
        /\ req[r].pc = "raised"
        /\ req[r].raised.kind = "CircuitBreakerError"
        /\ req[r].attempt = 2
        /\ req[r].sent = 2
        /\ req[r].failures = 2
        /\ breaker.state = OPEN

\* C28: a client constructed with max_retries = m never makes more than m
\* network attempts for one request.
C28_AttemptsWithinMaxRetries ==
    \A r \in Requests : req[r].sent <= client_cfg.max_retries

----------------------------------------------------------------------------
(* More claims about the circuit breaker, checked under Spec *)

\* task t is inside the wrapped function, let through while the breaker was half-open
Probing(t) == call_pc[t] = "running" /\ admitted_in[t] = HALF_OPEN

\* C26: while the breaker is HalfOpen only a limited number of probes is let
\* through: of the callers that arrive together after recovery_timeout, not
\* all are inside the wrapped function before a probe's outcome is recorded.
C26_HalfOpenProbesLimited == \E t \in Tasks : ~Probing(t)

\* C29: with failure_threshold >= 1 and success_threshold >= 1, in every
\* state reached by call(), reset() and late-finishing calls: Closed implies
\* failure_count < failure_threshold; a state other than HalfOpen implies
\* success_count = 0; HalfOpen implies success_count < success_threshold;
\* Open implies last_failure_time is set.
C29_BreakerCountersInRange ==
    /\ breaker.state = CLOSED => breaker.failure_count < cb_cfg.failure_threshold
    /\ breaker.state # HALF_OPEN => breaker.success_count = 0
    /\ breaker.state = HALF_OPEN => breaker.success_count < cb_cfg.success_threshold
    /\ breaker.state = OPEN => breaker.last_failure_time # NoTime

\* C29 witness: a call let through while the breaker was closed finished late,
\* after the breaker had opened and become half-open, and its success was
\* counted: the breaker is half-open one success short of closing.
C29_Witness ==
    /\ last.op = "success"
    /\ admitted_in[last.task] = CLOSED
    /\ breaker.state = HALF_OPEN
    /\ breaker.success_count = 1
    /\ cb_cfg.success_threshold = 2
    /\ breaker.last_failure_time # NoTime
    /\ failed >= 1

\* C30: a success counts toward closing a HalfOpen breaker only if its call
\* was let through while the breaker was HalfOpen: the success of a call let
\* through while Closed, recorded when the breaker is HalfOpen, neither
\* increases success_count nor closes the breaker.
C30_LateSuccessDoesNotCount ==
    [][ ( /\ last'.op = "success"
          /\ admitted_in[last'.task] = CLOSED
          /\ breaker.state = HALF_OPEN )
        => /\ breaker'.success_count = breaker.success_count
           /\ breaker'.state = HALF_OPEN ]_vars

----------------------------------------------------------------------------
(* Claims about validation in the fallback chain, checked under SpecFetch *)

\* the dict a source returned fails the range validation of its try block
InvalidPayload(ret) ==
    IF ret.source = PRICECHARTING
    THEN fails_validation(transformed_data(ret.payload))
    ELSE fails_validation(ret.payload)

\* C27: a payload that fails range validation is never recorded as a price
\* entry: after a validation failure on PriceCharting, JustTCG is called, and
\* after one on JustTCG, the last source, the update ends with no price.
C27_InvalidPayloadNeverRecorded ==
    \A i \in 1..Len(fetch.returned) :
        InvalidPayload(fetch.returned[i]) =>
            /\ fetch.added = <<>> \/ fetch.added[1].source # fetch.returned[i].source
            /\ fetch.returned[i].source = PRICECHARTING =>
                 \E j \in 1..Len(fetch.tried) : fetch.tried[j] = JUSTTCG
            /\ fetch.returned[i].source = JUSTTCG =>
                 (fetch.pc = "done" /\ fetch.result = "warning")

====
